---- MODULE Spec2Model ----
(***************************************************************************)
(* Model of the DynamicSyntaxHighlighter of vscode-code-strings: the       *)
(* region scanner (processDocument / findStringLiteral), the tokenizer     *)
(* adapter (tokenizeWithGrammar), the grammar provider (fetchGrammar) and  *)
(* the passes the editor events start.                                     *)
(*                                                                         *)
(* A line of a document is a sequence of one-character strings, line and   *)
(* column numbers are 0-based as in the source (lines[i] of the source is  *)
(* At(lines, i) here).  Documents use "\n" alone as the line end, so no    *)
(* line holds a line terminator character.  An undefined number of the     *)
(* source (startLine, prevEndLine before they are set) is Undef.           *)
(***************************************************************************)
EXTENDS Integers, Sequences, FiniteSets, TLC

\* ------------------------------------------------------------------ bounds

\* Longest document of SpecScan, in lines.
MaxLines == 7
\* Passes started by events in one behaviour of Spec (activation included).
MaxPasses == 2

Undef == 0 - 1

\* ------------------------------------------------------- characters, lines

At(lines, i) == lines[i + 1]

\* line.slice(a, b) of the source, for 0 <= a
Slice(line, a, b) == SubSeq(line, a + 1, IF b > Len(line) THEN Len(line) ELSE b)

\* \s of the regular expressions
IsSpace(c) == c = " "

\* \w of the regular expressions
IsWord(c) == c \in {"a", "b", "c", "g", "i", "j", "l", "n", "o", "p", "r", "s",
                    "t", "u", "v", "x", "y", "z", "J", "S", "_"}

\* The double quote, the single quote and the backtick.  A module cannot
\* spell the backtick inside a string, so the symbol BT stands for that one
\* character.
DQ == "\""
SQ == "'"
BT == "bt"

\* The character class of the triple-quote pattern: either quote
IsQuote(c) == c \in {DQ, SQ}

\* String.prototype.toLowerCase on one character
LowerChar(c) == CASE c = "J" -> "j" [] c = "S" -> "s" [] OTHER -> c

toLowerCase(w) == [k \in 1..Len(w) |-> LowerChar(w[k])]

\* The first position from p on that the set stops holds, or p when p is
\* past the end of the line.
FirstStop(line, p, stops) ==
  IF p > Len(line) THEN p ELSE CHOOSE q \in stops : \A r \in stops : q <= r

\* The position after the longest run of spaces at p.
SkipSpaces(line, p) ==
  FirstStop(line, p, {q \in p..(Len(line) + 1) : q > Len(line) \/ ~IsSpace(line[q])})

\* The position after the longest run of word characters at p.
SkipWord(line, p) ==
  FirstStop(line, p, {q \in p..(Len(line) + 1) : q > Len(line) \/ ~IsWord(line[q])})

\* The position after the longest run of other characters at p.
SkipOther(line, p) ==
  FirstStop(line, p, {q \in p..(Len(line) + 1) : q > Len(line) \/ IsWord(line[q])})

HasLit(line, p, lit) ==
  /\ p + Len(lit) - 1 <= Len(line)
  /\ SubSeq(line, p, p + Len(lit) - 1) = lit

NoMatch == [ok |-> FALSE]

\* CommentMatch that skips whatever stands before the comment prefix.
CommentMatchUnanchored(line, prefix) ==
  LET p1 == FirstStop(line, 1, {q \in 1..(Len(line) + 1) :
                                  q > Len(line) \/ line[q] \in {"#", "/"}})
      p2 == SkipSpaces(line, p1 + Len(prefix))
      p3 == SkipSpaces(line, p2 + 5)
      p4 == SkipWord(line, p3)
  IN  IF /\ HasLit(line, p1, prefix)
         /\ HasLit(line, p2, <<"l", "a", "n", "g", ":">>)
         /\ p4 > p3
      THEN [ok |-> TRUE, lang |-> SubSeq(line, p3, p4 - 1)]
      ELSE NoMatch

\* line.match(commentRegex): optional spaces, the prefix, optional spaces,
\* "lang:", optional spaces, one or more word characters (group 1, the
\* longest run).  Every quantifier is followed by a character outside its
\* class, so the greedy match is the only one.
CommentMatch(line, prefix) ==
  LET p1 == SkipSpaces(line, 1)
      p2 == SkipSpaces(line, p1 + Len(prefix))
      p3 == SkipSpaces(line, p2 + 5)
      p4 == SkipWord(line, p3)
  IN  IF /\ HasLit(line, p1, prefix)
         /\ HasLit(line, p2, <<"l", "a", "n", "g", ":">>)
         /\ p4 > p3
      THEN [ok |-> TRUE, lang |-> SubSeq(line, p3, p4 - 1)]
      ELSE NoMatch

\* The 1-based positions at which three quote characters start.
QuoteRuns(line) ==
  {p \in 1..(Len(line) - 2) :
     IsQuote(line[p]) /\ IsQuote(line[p + 1]) /\ IsQuote(line[p + 2])}

Last(S) == CHOOSE p \in S : \A q \in S : q <= p

\* The triple-quote pattern: anything, three quote characters, anything.
\* The first group is greedy, so the match takes the last run of three
\* quote characters of the line.
TripleQuoteMatch(line) ==
  IF QuoteRuns(line) = {} THEN NoMatch
  ELSE LET p == Last(QuoteRuns(line))
       IN  [ok |-> TRUE,
            before |-> SubSeq(line, 1, p - 1),
            quote |-> SubSeq(line, p, p + 2),
            after |-> SubSeq(line, p + 3, Len(line))]

Backticks(line) == {p \in 1..Len(line) : line[p] = BT}

\* The template pattern: anything, a backtick, anything; greedy again, so
\* the match takes the last backtick of the line.
TemplateMatch(line) ==
  IF Backticks(line) = {} THEN NoMatch
  ELSE LET p == Last(Backticks(line))
       IN  [ok |-> TRUE,
            before |-> SubSeq(line, 1, p - 1),
            after |-> SubSeq(line, p + 1, Len(line))]

SUPPORTED_PARENT_LANGUAGES ==
  {"python", "javascript", "typescript", "javascriptreact", "typescriptreact"}

TemplatedLanguages ==
  {"javascript", "typescript", "javascriptreact", "typescriptreact"}

\* ------------------------------------------------------ findStringLiteral

\* The locals of findStringLiteral before its loop.
FindInit ==
  [startLine |-> Undef, startLineOffset |-> Undef, contentLines |-> <<>>,
   firstQuoteType |-> <<>>, endLine |-> Undef, returned |-> FALSE]

\* FindStepPython with the groups of the match mixed up on the opening line:
\* the text before the delimiter is kept instead of the text after it.
FindStepPythonWrongGroup(st, line, i) ==
  LET m == TripleQuoteMatch(line)
  IN  IF m.ok
      THEN IF st.startLine # Undef /\ st.startLineOffset # Undef
           THEN IF st.firstQuoteType = m.quote
                THEN [st EXCEPT !.contentLines = Append(@, m.before),
                                !.endLine = i, !.returned = TRUE]
                ELSE st
           ELSE [st EXCEPT !.firstQuoteType = m.quote,
                           !.startLine = i,
                           !.startLineOffset = Len(m.before) + Len(m.quote),
                           !.contentLines = Append(@, m.before)]
      ELSE [st EXCEPT !.contentLines = Append(@, line)]

\* One iteration of the loop in the triple-quoted branch.
FindStepPython(st, line, i) ==
  LET m == TripleQuoteMatch(line)
  IN  IF m.ok
      THEN IF st.startLine # Undef /\ st.startLineOffset # Undef
           THEN IF st.firstQuoteType = m.quote
                THEN [st EXCEPT !.contentLines = Append(@, m.before),
                                !.endLine = i, !.returned = TRUE]
                ELSE st
           ELSE [st EXCEPT !.firstQuoteType = m.quote,
                           !.startLine = i,
                           !.startLineOffset = Len(m.before) + Len(m.quote),
                           !.contentLines = Append(@, m.after)]
      ELSE [st EXCEPT !.contentLines = Append(@, line)]

\* FindStepTemplate counting the backtick into the offset of the opening
\* line.
FindStepTemplatePlusOne(st, line, i) ==
  LET m == TemplateMatch(line)
  IN  IF m.ok
      THEN IF st.startLine # Undef /\ st.startLineOffset # Undef
           THEN [st EXCEPT !.contentLines = Append(@, m.before),
                           !.endLine = i, !.returned = TRUE]
           ELSE [st EXCEPT !.startLine = i,
                           !.startLineOffset = Len(m.before) + 1,
                           !.contentLines = Append(@, m.after)]
      ELSE [st EXCEPT !.contentLines = Append(@, line)]

\* FindStepTemplate closing the literal on its opening line when that line
\* holds a second backtick.
FindStepTemplateSameLine(st, line, i) ==
  LET m == TemplateMatch(line)
  IN  IF m.ok
      THEN IF st.startLine # Undef /\ st.startLineOffset # Undef
           THEN [st EXCEPT !.contentLines = Append(@, m.before),
                           !.endLine = i, !.returned = TRUE]
           ELSE IF TemplateMatch(m.before).ok
                THEN [st EXCEPT !.startLine = i,
                                !.startLineOffset = Len(TemplateMatch(m.before).before),
                                !.contentLines = Append(@, TemplateMatch(m.before).after),
                                !.endLine = i, !.returned = TRUE]
                ELSE [st EXCEPT !.startLine = i,
                                !.startLineOffset = Len(m.before),
                                !.contentLines = Append(@, m.after)]
      ELSE [st EXCEPT !.contentLines = Append(@, line)]

\* One iteration of the loop in the template-literal branch.
FindStepTemplate(st, line, i) ==
  LET m == TemplateMatch(line)
  IN  IF m.ok
      THEN IF st.startLine # Undef /\ st.startLineOffset # Undef
           THEN [st EXCEPT !.contentLines = Append(@, m.before),
                           !.endLine = i, !.returned = TRUE]
           ELSE [st EXCEPT !.startLine = i,
                           !.startLineOffset = Len(m.before),
                           !.contentLines = Append(@, m.after)]
      ELSE [st EXCEPT !.contentLines = Append(@, line)]

FindStep(st, line, i, parentLanguageId) ==
  IF parentLanguageId = "python" THEN FindStepPython(st, line, i)
  ELSE IF parentLanguageId \in TemplatedLanguages
       THEN FindStepTemplate(st, line, i)
       ELSE st

RECURSIVE FindLoopToEnd(_, _, _, _)
\* FindLoop closing an open literal at the end of the document instead of
\* returning null.
FindLoopToEnd(lines, i, parentLanguageId, st) ==
  IF i >= Len(lines)
  THEN IF st.startLine # Undef
       THEN [ok |-> TRUE, startLine |-> st.startLine,
             startLineOffset |-> st.startLineOffset,
             endLine |-> Len(lines) - 1, contentLines |-> st.contentLines]
       ELSE NoMatch
  ELSE LET nx == FindStep(st, At(lines, i), i, parentLanguageId)
       IN  IF nx.returned
           THEN [ok |-> TRUE, startLine |-> nx.startLine,
                 startLineOffset |-> nx.startLineOffset,
                 endLine |-> nx.endLine, contentLines |-> nx.contentLines]
           ELSE FindLoopToEnd(lines, i + 1, parentLanguageId, nx)

RECURSIVE FindLoop(_, _, _, _)
FindLoop(lines, i, parentLanguageId, st) ==
  IF i >= Len(lines) THEN NoMatch
  ELSE LET nx == FindStep(st, At(lines, i), i, parentLanguageId)
       IN  IF nx.returned
           THEN [ok |-> TRUE, startLine |-> nx.startLine,
                 startLineOffset |-> nx.startLineOffset,
                 endLine |-> nx.endLine, contentLines |-> nx.contentLines]
           ELSE FindLoop(lines, i + 1, parentLanguageId, nx)

\* The Region after fromLine, or NoMatch for the source's null.
findStringLiteral(lines, fromLine, parentLanguageId) ==
  FindLoop(lines, fromLine, parentLanguageId, FindInit)

\* ------------------------------------- findStringLiteral, the earlier draft

\* The locals of the draft's findStringLiteral before its loop: it has no
\* startLineOffset.
DraftFindInit ==
  [startLine |-> Undef, contentLines |-> <<>>, firstQuoteType |-> <<>>,
   endLine |-> Undef, returned |-> FALSE]

\* DraftFindStepPython closing an open literal at either quote variant.
DraftFindStepPythonAnyVariant(st, line, i) ==
  LET m == TripleQuoteMatch(line)
  IN  IF m.ok
      THEN IF st.startLine # Undef
           THEN [st EXCEPT !.contentLines = Append(@, m.before),
                           !.endLine = i, !.returned = TRUE]
           ELSE [st EXCEPT !.firstQuoteType = m.quote,
                           !.startLine = i,
                           !.contentLines = Append(@, m.after)]
      ELSE [st EXCEPT !.contentLines = Append(@, line)]

\* One iteration of the draft's loop in the triple-quoted branch.
DraftFindStepPython(st, line, i) ==
  LET m == TripleQuoteMatch(line)
  IN  IF m.ok
      THEN IF st.startLine # Undef
           THEN IF st.firstQuoteType = m.quote
                THEN [st EXCEPT !.contentLines = Append(@, m.before),
                                !.endLine = i, !.returned = TRUE]
                ELSE st
           ELSE [st EXCEPT !.firstQuoteType = m.quote,
                           !.startLine = i,
                           !.contentLines = Append(@, m.after)]
      ELSE [st EXCEPT !.contentLines = Append(@, line)]

\* One iteration of the draft's loop in the template-literal branch.
DraftFindStepTemplate(st, line, i) ==
  LET m == TemplateMatch(line)
  IN  IF m.ok
      THEN IF st.startLine # Undef
           THEN [st EXCEPT !.contentLines = Append(@, m.before),
                           !.endLine = i, !.returned = TRUE]
           ELSE [st EXCEPT !.startLine = i,
                           !.contentLines = Append(@, m.after)]
      ELSE [st EXCEPT !.contentLines = Append(@, line)]

DraftFindStep(st, line, i, parentLanguageId) ==
  IF parentLanguageId = "python" THEN DraftFindStepPython(st, line, i)
  ELSE IF parentLanguageId \in TemplatedLanguages
       THEN DraftFindStepTemplate(st, line, i)
       ELSE st

RECURSIVE DraftFindLoop(_, _, _, _)
DraftFindLoop(lines, i, parentLanguageId, st) ==
  IF i >= Len(lines) THEN NoMatch
  ELSE LET nx == DraftFindStep(st, At(lines, i), i, parentLanguageId)
       IN  IF nx.returned
           THEN [ok |-> TRUE, startLine |-> nx.startLine,
                 endLine |-> nx.endLine, contentLines |-> nx.contentLines]
           ELSE DraftFindLoop(lines, i + 1, parentLanguageId, nx)

\* The draft's findStringLiteral: the Region after fromLine without a
\* column offset, or NoMatch for null.
findStringLiteralDraft(lines, fromLine, parentLanguageId) ==
  DraftFindLoop(lines, fromLine, parentLanguageId, DraftFindInit)

\* -------------------------------------------------------- grammar provider

\* Language ids as the directive captures them (after toLowerCase).
LangJs == <<"j", "s">>
LangJavascript == <<"j", "a", "v", "a", "s", "c", "r", "i", "p", "t">>
LangCss == <<"c", "s", "s">>
LangGlsl == <<"g", "l", "s", "l">>
LangPy == <<"p", "y">>
LangUnknown == <<"z", "z">>
LangConstructor == <<"c", "o", "n", "s", "t", "r", "u", "c", "t", "o", "r">>
LangProto == <<"_", "_", "p", "r", "o", "t", "o", "_", "_">>

\* The lower-case word keys every object inherits from Object.prototype:
\* urls and grammarCache are plain objects indexed with the language id.
ObjectPrototypeKeys == {LangConstructor, LangProto}

Undefined == [kind |-> "undefined"]
Inherited == [kind |-> "inherited"]

\* urls[language]: the own entries of the table, then the inherited members.
\* (The key python is also in the table; no document of the model names it.)
urls(language) ==
  CASE language \in {LangJs, LangJavascript} ->
         [kind |-> "url", url |-> "TypeScriptReact.tmLanguage"]
    [] language = LangPy -> [kind |-> "url", url |-> "MagicPython.tmLanguage"]
    [] language = LangGlsl -> [kind |-> "url", url |-> "glsl.tmLanguage"]
    [] language = LangCss -> [kind |-> "url", url |-> "css.tmLanguage.json"]
    [] language \in ObjectPrototypeKeys -> Inherited
    [] OTHER -> Undefined

\* A rule of a raw grammar; "" is an absent string, <<>> an absent list or map.
Rule(name, contentName, patterns, repository, captures) ==
  [name |-> name, contentName |-> contentName, patterns |-> patterns,
   repository |-> repository, captures |-> captures,
   beginCaptures |-> <<>>, endCaptures |-> <<>>, include |-> 0]

Leaf(name) == Rule(name, "", <<>>, <<>>, <<>>)

\* A rule that refers to another by name: { include: "#key" }, the key given
\* as the position of the entry in the root's repository.  The reference is
\* a string in the parsed grammar, never a link between objects.
Include(key) == [Leaf("") EXCEPT !.include = key]

\* The scope names of the repository entries of the glsl grammar besides
\* the keyword: with the other labels, more than the palette has colours.
MetaLabels ==
  <<"meta.a.glsl", "meta.b.glsl", "meta.c.glsl", "meta.d.glsl", "meta.e.glsl",
    "meta.f.glsl", "meta.g.glsl", "meta.h.glsl", "meta.i.glsl", "meta.j.glsl",
    "meta.k.glsl", "meta.l.glsl", "meta.m.glsl", "meta.n.glsl", "meta.o.glsl",
    "meta.p.glsl", "meta.q.glsl", "meta.r.glsl", "meta.s.glsl">>

\* The grammar definition each url serves (a fixed grammar source).  The
\* root's name is the grammar's display name, its scopeName the root scope.
\* Two of the grammars share the scope name "string", and one declares a
\* scope named "default".  The repository entries of the glsl grammar
\* include each other in a ring, the first pattern of its root includes the
\* first entry.
RawGrammar(url) ==
  CASE url = "TypeScriptReact.tmLanguage" ->
         [Rule("TypeScriptReact", "",
               <<Leaf(""), Rule("default", "string", <<>>, <<>>, <<>>)>>,
               <<Leaf("keyword.control.tsx")>>, <<>>)
            EXCEPT !.beginCaptures = <<Leaf("punctuation.tsx")>>]
           @@ [scopeName |-> "source.tsx", word |-> "keyword.control.tsx"]
    [] url = "css.tmLanguage.json" ->
         Rule("CSS", "", <<Leaf("entity.name.tag.css"), Leaf("string")>>,
              <<>>, <<>>)
           @@ [scopeName |-> "source.css", word |-> "string"]
    [] url = "glsl.tmLanguage" ->
         Rule("GLSL", "", <<Include(1)>>,
              <<Rule("keyword.glsl", "", <<Include(2)>>, <<>>, <<>>)>>
                \o [k \in 1..Len(MetaLabels) |->
                      Rule(MetaLabels[k], "",
                           <<Include(IF k = Len(MetaLabels) THEN 1 ELSE k + 2)>>,
                           <<>>, <<>>)],
              <<>>)
           @@ [scopeName |-> "source.glsl", word |-> "keyword.glsl"]
    [] OTHER ->
         Rule("Other", "", <<Leaf("keyword.other")>>, <<>>, <<>>)
           @@ [scopeName |-> "source.other", word |-> "keyword.other"]

\* registry.loadGrammar(scopeName): the IGrammar built from a raw grammar.
LoadedGrammar(raw) == [scopeName |-> raw.scopeName, word |-> raw.word]

\* Every type label of the model, in the order Array.prototype.sort gives
\* strings (UTF-16 code units: upper case before lower case).
LabelOrder ==
  <<"CSS", "GLSL", "Other", "TypeScriptReact", "default", "entity.name.tag.css",
    "keyword.control.tsx", "keyword.glsl", "keyword.other">>
    \o MetaLabels
    \o <<"punctuation.tsx", "source.css", "source.glsl", "source.other",
          "source.tsx", "string">>

TypeLabels == {LabelOrder[k] : k \in 1..Len(LabelOrder)}

colorPalette ==
  <<"#569cd6", "#ce9178", "#6a9955", "#b5cea8", "#4fc1ff", "#dcdcaa",
    "#c586c0", "#9cdcfe", "#f44747", "#d7ba7d", "#b267e6", "#ffb86c",
    "#50fa7b", "#ff79c6", "#8be9fd", "#bd93f9", "#f8f8f2", "#6272a4",
    "#44475a", "#dcdcdc">>

RECURSIVE visitFollowing(_, _, _)
\* visitPattern resolving every include against the root's repository and
\* visiting the rule referred to; "(unbounded)" marks a traversal still
\* running when the references followed in a row exceed the fuel.
visitFollowing(root, pattern, fuel) ==
  LET caps(m) == {m[k].name : k \in 1..Len(m)}
  IN  IF fuel = 0 THEN {"(unbounded)"}
      ELSE {pattern.name, pattern.contentName}
             \cup UNION {visitFollowing(root, pattern.patterns[k], fuel) :
                           k \in 1..Len(pattern.patterns)}
             \cup UNION {visitFollowing(root, pattern.repository[k], fuel) :
                           k \in 1..Len(pattern.repository)}
             \cup caps(pattern.captures) \cup caps(pattern.beginCaptures)
             \cup caps(pattern.endCaptures)
             \cup (IF pattern.include # 0
                   THEN visitFollowing(root, root.repository[pattern.include], fuel - 1)
                   ELSE {})

\* extractTokenTypesFromGrammar with a traversal that follows references.
extractTokenTypesFollowingIncludes(grammar) ==
  visitFollowing(grammar, grammar, 6) \ {""}

RECURSIVE visitPattern(_)
\* The labels visitPattern adds to types for one rule.
visitPattern(pattern) ==
  LET caps(m) == {m[k].name : k \in 1..Len(m)}
  IN  {pattern.name, pattern.contentName}
        \cup UNION {visitPattern(pattern.patterns[k]) : k \in 1..Len(pattern.patterns)}
        \cup UNION {visitPattern(pattern.repository[k]) : k \in 1..Len(pattern.repository)}
        \cup caps(pattern.captures) \cup caps(pattern.beginCaptures)
        \cup caps(pattern.endCaptures)

\* Array.from(types).filter(Boolean): the empty string is dropped.
extractTokenTypesFromGrammar(grammar) == visitPattern(grammar) \ {""}

\* tokenTypes.sort(): the labels of S in sorted order.
SortLabels(S) ==
  LET kept == {k \in 1..Len(LabelOrder) : LabelOrder[k] \in S}
      nth(n) == CHOOSE k \in kept : Cardinality({j \in kept : j < k}) = n - 1
  IN  [n \in 1..Cardinality(kept) |-> LabelOrder[nth(n)]]

\* AssignColors with the palette taken from the label's position counted
\* from one.
AssignColorsFromOne(colors, raw) ==
  LET tokenTypes == SortLabels(extractTokenTypesFromGrammar(raw))
      assigned == [l \in {tokenTypes[k] : k \in 1..Len(tokenTypes)} |->
                     LET i == CHOOSE k \in 1..Len(tokenTypes) : tokenTypes[k] = l
                     IN  colorPalette[(i % Len(colorPalette)) + 1]]
      looped == assigned @@ colors
  IN  [l \in {"default"} |-> "#dcdcdc"] @@ looped

\* AssignColors without the fallback entry set after the loop.
AssignColorsNoFallback(colors, raw) ==
  LET tokenTypes == SortLabels(extractTokenTypesFromGrammar(raw))
      assigned == [l \in {tokenTypes[k] : k \in 1..Len(tokenTypes)} |->
                     LET i == (CHOOSE k \in 1..Len(tokenTypes) : tokenTypes[k] = l) - 1
                     IN  colorPalette[(i % Len(colorPalette)) + 1]]
  IN  assigned @@ colors

\* The colour map after the assignment loop of a load and the fallback entry.
AssignColors(colors, raw) ==
  LET tokenTypes == SortLabels(extractTokenTypesFromGrammar(raw))
      assigned == [l \in {tokenTypes[k] : k \in 1..Len(tokenTypes)} |->
                     LET i == (CHOOSE k \in 1..Len(tokenTypes) : tokenTypes[k] = l) - 1
                     IN  colorPalette[(i % Len(colorPalette)) + 1]]
      looped == assigned @@ colors
  IN  [l \in {"default"} |-> "#dcdcdc"] @@ looped

\* tokenTypeColors.get(type) || "#dcdcdc"
ColorOf(colors, type) ==
  IF type \in DOMAIN colors THEN colors[type] ELSE "#dcdcdc"

\* ------------------------------------------------------------- tokenizer

INITIAL == "INITIAL"

RECURSIVE Runs(_, _)
\* The maximal runs of word and of other characters of a line from column
\* p (0-based), as spans: the tokens of one line cover the line.
Runs(line, p) ==
  IF p >= Len(line) THEN <<>>
  ELSE LET w == IsWord(line[p + 1])
           q == IF w THEN SkipWord(line, p + 1) ELSE SkipOther(line, p + 1)
       IN  <<[startIndex |-> p, endIndex |-> q - 1, word |-> w]>>
             \o Runs(line, q - 1)

\* grammar.tokenizeLine(line, ruleStack) of vscode-textmate, abstracted to a
\* deterministic stateful tokenizer: a word is scoped with the grammar's
\* keyword scope in the initial state, everything else with the root scope
\* alone; a line ending in "=" leaves the rule stack in a continuation state
\* in which no word is a keyword.  An empty line yields one empty token.
tokenizeLine(grammar, line, ruleStack) ==
  LET spans == IF line = <<>>
               THEN <<[startIndex |-> 0, endIndex |-> 0, word |-> FALSE]>>
               ELSE Runs(line, 0)
  IN  [tokens |->
         [k \in 1..Len(spans) |->
            [startIndex |-> spans[k].startIndex,
             endIndex |-> spans[k].endIndex,
             scopes |-> IF spans[k].word /\ ruleStack = INITIAL
                        THEN <<grammar.scopeName, grammar.word>>
                        ELSE <<grammar.scopeName>>]],
       ruleStack |-> IF line # <<>> /\ line[Len(line)] = "="
                     THEN "continued" ELSE INITIAL]

\* MakeToken with the offset of the opening line added on every line.
MakeTokenOffsetEveryLine(token, line, i, startLine, startLineOffset) ==
  LET type == IF token.scopes # <<>> /\ token.scopes[Len(token.scopes)] # ""
              THEN token.scopes[Len(token.scopes)] ELSE "default"
  IN  [type |-> type,
       value |-> Slice(line, token.startIndex, token.endIndex),
       range |-> [line |-> startLine + i,
                  startCol |-> token.startIndex + startLineOffset,
                  endCol |-> token.endIndex + startLineOffset]]

\* The Token the inner loop of tokenizeWithGrammar pushes for one span of
\* content line i.
MakeToken(token, line, i, startLine, startLineOffset) ==
  LET type == IF token.scopes # <<>> /\ token.scopes[Len(token.scopes)] # ""
              THEN token.scopes[Len(token.scopes)] ELSE "default"
      adjustedStartIndex == token.startIndex + (IF i = 0 THEN startLineOffset ELSE 0)
      adjustedEndIndex == token.endIndex + (IF i = 0 THEN startLineOffset ELSE 0)
  IN  [type |-> type,
       value |-> Slice(line, token.startIndex, token.endIndex),
       range |-> [line |-> startLine + i, startCol |-> adjustedStartIndex,
                  endCol |-> adjustedEndIndex]]

RECURSIVE TokenizeFromReset(_, _, _, _, _, _)
\* TokenizeFrom with the rule stack reset on every line.
TokenizeFromReset(contentLines, grammar, startLine, startLineOffset, i, ruleStack) ==
  IF i >= Len(contentLines) THEN <<>>
  ELSE LET line == At(contentLines, i)
           lineTokens == tokenizeLine(grammar, line, INITIAL)
       IN  [k \in 1..Len(lineTokens.tokens) |->
              MakeToken(lineTokens.tokens[k], line, i, startLine, startLineOffset)]
             \o TokenizeFromReset(contentLines, grammar, startLine, startLineOffset,
                                  i + 1, INITIAL)

RECURSIVE TokenizeFrom(_, _, _, _, _, _)
\* The loop of tokenizeWithGrammar from content line i on, ruleStack being
\* the state the previous line returned.
TokenizeFrom(contentLines, grammar, startLine, startLineOffset, i, ruleStack) ==
  IF i >= Len(contentLines) THEN <<>>
  ELSE LET line == At(contentLines, i)
           lineTokens == tokenizeLine(grammar, line, ruleStack)
       IN  [k \in 1..Len(lineTokens.tokens) |->
              MakeToken(lineTokens.tokens[k], line, i, startLine, startLineOffset)]
             \o TokenizeFrom(contentLines, grammar, startLine, startLineOffset,
                             i + 1, lineTokens.ruleStack)

tokenizeWithGrammar(contentLines, grammar, startLine, startLineOffset) ==
  TokenizeFrom(contentLines, grammar, startLine, startLineOffset, 0, INITIAL)

\* ------------------------------------------------------------------ state

Docs == {"d1", "d2", "d3"}
NoEditor == "none"

\* document.languageId of each document
DocLanguage(d) ==
  CASE d = "d1" -> "python"
    [] d = "d2" -> "javascript"
    [] OTHER -> "markdown"

\* The documents of a dialect the scanner knows.
ScannedDocs == {d \in Docs : DocLanguage(d) \in SUPPORTED_PARENT_LANGUAGES}

VARIABLES
  docText,          \* the lines of each document: getText().split("\n")
  activeEditor,     \* the document of window.activeTextEditor, or NoEditor
  activated,        \* activate() has run
  shown,            \* per editor and decoration type, the ranges last set
  grammarCache,     \* own entries of grammarCache: language -> IGrammar
  tokenTypeColors,  \* the entries of the Map tokenTypeColors
  decorationTypes,  \* the entries of the Map decorationTypes: type -> colour
  disposables,      \* the array disposables
  passes,           \* every call of processDocument so far, in trigger order
  loadCount,        \* history: writes of grammarCache[language] so far
  applyLog,         \* history: the passes that reached the apply step, in order
  disposed          \* the members of disposables that dispose() has disposed

vars == <<docText, activeEditor, activated, shown, grammarCache,
          tokenTypeColors, decorationTypes, disposables, passes, loadCount,
          applyLog, disposed>>

\* CacheGet handing back a grammar that has lost its keyword scope.
CacheGetNoKeyword(cache, language) ==
  IF language \in DOMAIN cache
  THEN [kind |-> "grammar", grammar |-> [cache[language] EXCEPT !.word = "default"]]
  ELSE IF language \in ObjectPrototypeKeys THEN Inherited
  ELSE Undefined

\* grammarCache[language]: own entries, then the inherited members.
CacheGet(cache, language) ==
  IF language \in DOMAIN cache THEN [kind |-> "grammar", grammar |-> cache[language]]
  ELSE IF language \in ObjectPrototypeKeys THEN Inherited
  ELSE Undefined

\* --------------------------------------------------------- processDocument

\* The locals of processDocument when its loop starts, and history: the
\* Regions found so far, the lines examined for a directive since the last
\* Region, the calls that had ended when this one began (after) and the
\* entries of tokenTypeColors when the call last ran (colors).
NewPass(d, lines) ==
  [doc |-> d, languageId |-> DocLanguage(d), lines |-> lines, i |-> 0,
   prevEndLine |-> Undef, decorationsByType |-> <<>>, pc |-> "scan",
   pend |-> NoMatch, regions |-> <<>>, examined |-> {},
   after |-> {k \in 1..Len(passes) : passes[k].pc \in {"done", "threw", "returned"}},
   colors |-> <<>>]

\* The python pattern for every dialect.
commentPrefixHash(languageId) == <<"#">>

commentPrefix(languageId) ==
  IF languageId = "python" THEN <<"#">> ELSE <<"/", "/">>

RECURSIVE GroupByTypePrepend(_, _)
\* GroupByType with each range put in front of the ranges of its type.
GroupByTypePrepend(byType, decorations) ==
  IF decorations = <<>> THEN byType
  ELSE LET dec == Head(decorations)
           has == \E k \in 1..Len(byType) : byType[k].type = dec.type
           withKey == IF has THEN byType
                      ELSE Append(byType, [type |-> dec.type, ranges |-> <<>>])
           pushed == [k \in 1..Len(withKey) |->
                        IF withKey[k].type = dec.type
                        THEN [withKey[k] EXCEPT !.ranges = <<dec.range>> \o @]
                        ELSE withKey[k]]
       IN  GroupByTypePrepend(pushed, Tail(decorations))

RECURSIVE GroupByType(_, _)
\* syntaxDecorations.forEach(...): a Map keeps its keys in insertion order.
GroupByType(byType, decorations) ==
  IF decorations = <<>> THEN byType
  ELSE LET dec == Head(decorations)
           has == \E k \in 1..Len(byType) : byType[k].type = dec.type
           withKey == IF has THEN byType
                      ELSE Append(byType, [type |-> dec.type, ranges |-> <<>>])
           pushed == [k \in 1..Len(withKey) |->
                        IF withKey[k].type = dec.type
                        THEN [withKey[k] EXCEPT !.ranges = Append(@, dec.range)]
                        ELSE withKey[k]]
       IN  GroupByType(pushed, Tail(decorations))

\* applySyntaxHighlighting after fetchGrammar resolved to a grammar or to
\* null: the decorations of the Region.
Decorations(region, grammar) ==
  LET tokens == IF grammar.kind = "grammar"
                THEN tokenizeWithGrammar(region.contentLines, grammar.grammar,
                                         region.startLine, region.startLineOffset)
                ELSE <<>>
  IN  tokens

\* The rest of the loop body once applySyntaxHighlighting has returned:
\* prevEndLine, the grouping, then the loop's i++.
AfterHighlighting(ps, pend, grammar) ==
  LET tokens == Decorations(pend.region, grammar)
  IN  [ps EXCEPT !.prevEndLine = pend.region.endLine,
                 !.decorationsByType = GroupByType(@, tokens),
                 !.regions = Append(@, [dirLine |-> pend.dirLine,
                                        language |-> pend.language,
                                        region |-> pend.region,
                                        resolved |-> grammar.kind = "grammar",
                                        tokens |-> tokens,
                                        examined |-> ps.examined]),
                 !.examined = {},
                 !.pend = NoMatch,
                 !.i = @ + 1,
                 !.pc = "scan"]

\* The skip rule one line short: the last line of the Region is examined.
SkipLineOffByOne(ps) == ps.prevEndLine # Undef /\ ps.i < ps.prevEndLine

\* The skip rule at the head of the loop body.
SkipLine(ps) == ps.prevEndLine # Undef /\ ps.i <= ps.prevEndLine

RECURSIVE Scan(_, _)
\* The loop of processDocument from ps.i, run until the pass suspends in
\* fetchGrammar (pc = "fetch"), throws (pc = "threw") or leaves the loop
\* (pc = "apply").  An await of fetchGrammar that returns before its own
\* first await (no url, or a cache entry) resumes in the same job of the
\* event loop, so no other handler runs in between.
Scan(ps, cache) ==
  IF ps.i >= Len(ps.lines) THEN [ps EXCEPT !.pc = "apply"]
  ELSE IF SkipLine(ps)
  THEN Scan([ps EXCEPT !.i = @ + 1], cache)
  ELSE
    LET commentMatch == CommentMatch(At(ps.lines, ps.i), commentPrefix(ps.languageId))
        seen == [ps EXCEPT !.examined = @ \cup {ps.i}]
    IN  IF ~commentMatch.ok THEN Scan([seen EXCEPT !.i = @ + 1], cache)
        ELSE
          LET targetLanguage == toLowerCase(commentMatch.lang)
              stringMatch == findStringLiteral(ps.lines, ps.i + 1, ps.languageId)
              pend == [ok |-> TRUE, region |-> stringMatch,
                       language |-> targetLanguage, dirLine |-> ps.i]
              url == urls(targetLanguage)
              cached == CacheGet(cache, targetLanguage)
          IN  IF ~stringMatch.ok THEN Scan([seen EXCEPT !.i = @ + 1], cache)
              ELSE IF url.kind = "undefined"
              THEN Scan(AfterHighlighting(seen, pend, Undefined), cache)
              ELSE IF cached.kind = "grammar"
              THEN Scan(AfterHighlighting(seen, pend, cached), cache)
              ELSE IF cached.kind = "inherited"
              \* fetchGrammar returns the inherited member, which is truthy and
              \* has no tokenizeLine: tokenizeWithGrammar throws a TypeError on
              \* the first content line and processDocument rejects.
              THEN [seen EXCEPT !.pend = pend, !.pc = "threw"]
              ELSE [seen EXCEPT !.pend = pend @@ [url |-> url.url], !.pc = "fetch"]

\* getOrCreateDecorationType for each key in turn, then what is shown.
RECURSIVE ApplyTypes(_, _, _)
ApplyTypes(byType, st, colors) ==
  IF byType = <<>> THEN st
  ELSE LET type == Head(byType).type
           fresh == type \notin DOMAIN st.decorationTypes
           types == IF fresh
                    THEN [t \in {type} |-> ColorOf(colors, type)] @@ st.decorationTypes
                    ELSE st.decorationTypes
       IN  ApplyTypes(Tail(byType),
                      [decorationTypes |-> types,
                       disposables |-> IF fresh THEN Append(st.disposables, type)
                                       ELSE st.disposables,
                       view |-> [st.view EXCEPT ![type] = Head(byType).ranges]],
                      colors)

NoRanges == [t \in TypeLabels |-> <<>>]

\* The apply step of processDocument on the editor that is active now.
ApplyDecorations(byType, editor, st, colors) ==
  IF editor # NoEditor /\ Len(byType) > 0
  THEN LET cleared == [t \in TypeLabels |->
                         IF t \in DOMAIN st.decorationTypes THEN <<>> ELSE st.view[t]]
       IN  ApplyTypes(byType, [st EXCEPT !.view = cleared], colors)
  ELSE st

\* What is left of a call of processDocument once its loop has run to ps:
\* the apply step if the loop was left, on the editor that is active then.
\* base is the array of passes holding the call at index p, st the
\* decoration state before the step.
Finish(p, ps, base, editor, st, colors) ==
  LET st0 == [decorationTypes |-> decorationTypes, disposables |-> st,
              view |-> IF editor = NoEditor THEN NoRanges ELSE shown[editor]]
      st1 == IF ps.pc = "apply"
             THEN ApplyDecorations(ps.decorationsByType, editor, st0, colors)
             ELSE st0
  IN  /\ passes' = [base EXCEPT ![p] = [ps EXCEPT !.pc = IF @ = "apply" THEN "done" ELSE @,
                                                  !.colors = colors]]
      /\ decorationTypes' = st1.decorationTypes
      /\ disposables' = st1.disposables
      /\ shown' = IF editor = NoEditor THEN shown
                  ELSE [shown EXCEPT ![editor] = st1.view]
      /\ applyLog' = IF ps.pc = "apply"
                     THEN Append(applyLog, [pass |-> p, editor |-> editor,
                                            mapping |-> ps.decorationsByType])
                     ELSE applyLog

\* processDocument without the check of the language id, a document of any
\* other language scanned as the default dialect.
processDocumentUnguarded(d, lines, editor, subs) ==
  LET p == Len(passes) + 1
      fresh == IF DocLanguage(d) \in SUPPORTED_PARENT_LANGUAGES
               THEN NewPass(d, lines)
               ELSE [NewPass(d, lines) EXCEPT !.languageId = "javascript"]
  IN  /\ Finish(p, Scan(fresh, grammarCache), Append(passes, fresh),
                editor, subs, tokenTypeColors)
      /\ UNCHANGED <<grammarCache, tokenTypeColors, loadCount>>

\* processDocument(document) from its call to its first suspension or its
\* end; editor is the active editor, subs the array disposables at the call.
processDocument(d, lines, editor, subs) ==
  LET p == Len(passes) + 1
      fresh == NewPass(d, lines)
  IN  /\ IF DocLanguage(d) \notin SUPPORTED_PARENT_LANGUAGES
         THEN /\ passes' = Append(passes, [fresh EXCEPT !.pc = "returned",
                                                        !.colors = tokenTypeColors])
              /\ disposables' = subs
              /\ UNCHANGED <<decorationTypes, shown, applyLog>>
         ELSE Finish(p, Scan(fresh, grammarCache), Append(passes, fresh),
                     editor, subs, tokenTypeColors)
      /\ UNCHANGED <<grammarCache, tokenTypeColors, loadCount>>

\* ---------------------------------------------------------------- actions

\* activate(): the two subscriptions, then a pass on the active editor.
Activate ==
  /\ ~activated
  /\ activated' = TRUE
  /\ LET subs == disposables \o <<"changeDocument", "changeActiveEditor">>
     IN  IF activeEditor # NoEditor
         THEN processDocument(activeEditor, docText[activeEditor], activeEditor, subs)
         ELSE /\ disposables' = subs
              /\ UNCHANGED <<shown, grammarCache, tokenTypeColors,
                             decorationTypes, passes, loadCount, applyLog>>
  /\ UNCHANGED <<docText, activeEditor, disposed>>

\* The texts an edit can leave in a document.
DirectiveLine(prefix, lang) == prefix \o <<"l", "a", "n", "g", ":">> \o lang
PyDelim == <<"x", "=", DQ, DQ, DQ, "a">>
PyOther == <<SQ, SQ, SQ>>
Plain == <<"a", "b", " ", "=">>
JsDelim == <<"y", "=", BT, "a">>

DocTexts(d) ==
  IF d = "d1"
  THEN {<<DirectiveLine(<<"#">>, LangJs), PyDelim, PyDelim>>,
        <<Plain>>,
        <<DirectiveLine(<<"#">>, LangCss), PyDelim, PyDelim,
          DirectiveLine(<<"#">>, LangJs), PyDelim, PyDelim>>,
        <<DirectiveLine(<<"#">>, LangConstructor), PyDelim, PyDelim,
          DirectiveLine(<<"#">>, LangJs), PyDelim, PyDelim>>,
        <<DirectiveLine(<<"#">>, LangUnknown), PyDelim, PyDelim>>}
  ELSE IF d = "d2"
  THEN {<<DirectiveLine(<<"/", "/">>, LangJs), JsDelim, JsDelim>>}
  ELSE {<<DirectiveLine(<<"/", "/">>, LangJs), JsDelim, JsDelim,
          DirectiveLine(<<"#">>, LangCss), PyDelim, PyDelim>>}

\* handleDocumentChange without the comparison with the active editor's
\* document.
DocumentChangeAnyDocument(d, text) ==
  /\ activated
  /\ "changeDocument" \notin disposed
  /\ text # docText[d]
  /\ docText' = [docText EXCEPT ![d] = text]
  /\ Len(passes) < MaxPasses
  /\ processDocument(d, text, activeEditor, disposables)
  /\ UNCHANGED <<activeEditor, activated, disposed>>

\* handleDocumentChange(event): the document holds its new text when the
\* handler runs.  A disposed subscription delivers no event.
DocumentChange(d, text) ==
  /\ activated
  /\ "changeDocument" \notin disposed
  /\ text # docText[d]
  /\ docText' = [docText EXCEPT ![d] = text]
  /\ IF d = activeEditor
     THEN /\ Len(passes) < MaxPasses
          /\ processDocument(d, text, activeEditor, disposables)
     ELSE UNCHANGED <<shown, grammarCache, tokenTypeColors, decorationTypes,
                      disposables, passes, loadCount, applyLog>>
  /\ UNCHANGED <<activeEditor, activated, disposed>>

\* handleActiveEditorChange(editor): editor is NoEditor for undefined.
ActiveEditorChange(e) ==
  /\ activated
  /\ "changeActiveEditor" \notin disposed
  /\ e # activeEditor
  /\ activeEditor' = e
  /\ IF e # NoEditor
     THEN /\ Len(passes) < MaxPasses
          /\ processDocument(e, docText[e], e, disposables)
     ELSE UNCHANGED <<shown, grammarCache, tokenTypeColors, decorationTypes,
                      disposables, passes, loadCount, applyLog>>
  /\ UNCHANGED <<docText, activated, disposed>>

FetchOutcomes == {"ok", "notOk", "invalid", "throws"}

\* FetchResolve with the cache entry and the colours written before the
\* payload is checked for a scopeName.
FetchResolveCachesInvalid(p, outcome) ==
  /\ passes[p].pc = "fetch"
  /\ LET ps == passes[p]
         language == ps.pend.language
         raw == RawGrammar(ps.pend.url)
         loaded == outcome = "ok"
         written == outcome \in {"ok", "invalid"}
         cache == IF written
                  THEN [l \in {language} |-> LoadedGrammar(raw)] @@ grammarCache
                  ELSE grammarCache
         colors == IF written THEN AssignColors(tokenTypeColors, raw)
                   ELSE tokenTypeColors
         grammar == IF loaded
                    THEN [kind |-> "grammar", grammar |-> LoadedGrammar(raw)]
                    ELSE Undefined
     IN  /\ grammarCache' = cache
         /\ tokenTypeColors' = colors
         /\ loadCount' = IF loaded
                         THEN [l \in {language} |->
                                 IF language \in DOMAIN loadCount
                                 THEN loadCount[language] + 1 ELSE 1] @@ loadCount
                         ELSE loadCount
         /\ Finish(p, Scan(AfterHighlighting(ps, ps.pend, grammar), cache),
                   passes, activeEditor, disposables, colors)
  /\ UNCHANGED <<docText, activeEditor, activated, disposed>>

\* fetchGrammar from its first await to its return, and the pass that
\* awaits it up to its next suspension or its end.  The awaits of
\* fetchGrammar (fetch, the body, the wasm file, loadGrammar) touch locals
\* only, so they are one step; outcome is what they meet: the grammar
\* loads, the response is not ok, the payload has no scopeName, or one of
\* them throws (caught).
FetchResolve(p, outcome) ==
  /\ passes[p].pc = "fetch"
  /\ LET ps == passes[p]
         language == ps.pend.language
         raw == RawGrammar(ps.pend.url)
         loaded == outcome = "ok"
         cache == IF loaded
                  THEN [l \in {language} |-> LoadedGrammar(raw)] @@ grammarCache
                  ELSE grammarCache
         colors == IF loaded THEN AssignColors(tokenTypeColors, raw)
                   ELSE tokenTypeColors
         grammar == IF loaded
                    THEN [kind |-> "grammar", grammar |-> LoadedGrammar(raw)]
                    ELSE Undefined
     IN  /\ grammarCache' = cache
         /\ tokenTypeColors' = colors
         /\ loadCount' = IF loaded
                         THEN [l \in {language} |->
                                 IF language \in DOMAIN loadCount
                                 THEN loadCount[language] + 1 ELSE 1] @@ loadCount
                         ELSE loadCount
         /\ Finish(p, Scan(AfterHighlighting(ps, ps.pend, grammar), cache),
                   passes, activeEditor, disposables, colors)
  /\ UNCHANGED <<docText, activeEditor, activated, disposed>>

\* deactivate(): dispose() on the highlighter, once, when the extension is
\* torn down; it disposes the members the array holds at that moment.
Dispose ==
  /\ activated
  /\ disposed = {}
  /\ disposed' = {disposables[k] : k \in 1..Len(disposables)}
  /\ UNCHANGED <<docText, activeEditor, activated, shown, grammarCache,
                 tokenTypeColors, decorationTypes, disposables, passes,
                 loadCount, applyLog>>

\* ----------------------------------------------------------- specifications

NoDecorations == [d \in Docs |-> NoRanges]

InitCommon ==
  /\ activated = FALSE
  /\ shown = NoDecorations
  /\ grammarCache = <<>>
  /\ tokenTypeColors = <<>>
  /\ decorationTypes = <<>>
  /\ disposables = <<>>
  /\ passes = <<>>
  /\ loadCount = <<>>
  /\ applyLog = <<>>
  /\ disposed = {}

\* The extension after construction, before activate(): any of the texts
\* in each document, any editor or none active.
Init ==
  /\ \E t1 \in DocTexts("d1") : \E t2 \in DocTexts("d2") :
       \E t3 \in DocTexts("d3") :
         docText = [d \in Docs |-> IF d = "d1" THEN t1
                                   ELSE IF d = "d2" THEN t2 ELSE t3]
  /\ activeEditor \in Docs \cup {NoEditor}
  /\ InitCommon

\* The texts an edit leaves: any of the texts in the document of the active
\* editor; an edit made behind a document that is not shown (a save hook, a
\* refactoring elsewhere) is kept to the text without directive.
EditTexts(d) == IF d = activeEditor THEN DocTexts(d) ELSE {<<Plain>>} \cap DocTexts(d)

Next ==
  \/ Activate
  \/ \E d \in Docs : \E text \in EditTexts(d) : DocumentChange(d, text)
  \/ \E e \in Docs \cup {NoEditor} : ActiveEditorChange(e)
  \/ \E p \in 1..Len(passes) : \E outcome \in FetchOutcomes : FetchResolve(p, outcome)
  \/ Dispose

Spec == Init /\ [][Next]_vars

\* The scanner on every document of at most MaxLines lines: the lines a
\* document is made of, per dialect.  The directives have spaces and an
\* upper-case id; PyDelim and PyOther hold the two quote variants.
PyDirective == <<"#", " ", "l", "a", "n", "g", ":", " ", "J", "S">>
JsDirective == <<"/", "/", " ", "l", "a", "n", "g", ":", " ", "J", "S">>

ScanLines(d) ==
  IF d = "d1" THEN {PyDirective, PyDelim, PyOther, Plain}
  ELSE {JsDirective, JsDelim, Plain}

ScanDocs(d) == UNION {[1..n -> ScanLines(d)] : n \in 1..MaxLines}

\* One document of either dialect in the active editor, any text in it.
InitScan ==
  /\ activeEditor \in ScannedDocs
  /\ \E text \in ScanDocs(activeEditor) :
       docText = [d \in Docs |-> IF d = activeEditor THEN text ELSE <<<<>>>>]
  /\ InitCommon

NextScan ==
  \/ Activate
  \/ \E p \in 1..Len(passes) : \E outcome \in FetchOutcomes : FetchResolve(p, outcome)

SpecScan == InitScan /\ [][NextScan]_vars

\* The scanner on single lines in depth: the lines that are or nearly are a
\* directive, and the lines that do or do not close an open literal.
DQ3 == <<DQ, DQ, DQ>>
SQ3 == <<SQ, SQ, SQ>>

\* Leading text, a comment prefix, spaces, the keyword, spaces, an id and
\* trailing text, each piece present, absent or nearly right.
DirectiveCandidates ==
  {lead \o prefix \o sp1 \o key \o sp2 \o id \o trail :
     lead \in {<<>>, <<" ">>, <<"a">>},
     prefix \in {<<"#">>, <<"/", "/">>, <<"/">>, <<>>},
     sp1 \in {<<>>, <<" ">>},
     key \in {<<"l", "a", "n", "g", ":">>, <<"l", "a", "n", "g">>,
              <<"L", "a", "n", "g", ":">>},
     sp2 \in {<<>>, <<" ">>},
     id \in {<<"j", "s">>, <<"J", "S">>, <<"J", "s">>, <<>>},
     trail \in {<<>>, <<"-", "x">>}}

\* Text, a delimiter or none, text, a second delimiter or none, text.
CloseCandidates(d) ==
  IF d = "d1"
  THEN {pre \o q1 \o mid \o q2 \o post :
          pre \in {<<>>, <<"a">>},
          q1 \in {DQ3, SQ3, <<>>},
          mid \in {<<>>, <<"b">>},
          q2 \in {DQ3, SQ3, <<DQ, DQ, SQ>>, <<>>},
          post \in {<<>>, <<"c">>}}
  ELSE {pre \o q1 \o mid \o q2 \o post :
          pre \in {<<>>, <<"a">>},
          q1 \in {<<BT>>, <<>>},
          mid \in {<<>>, <<"b">>},
          q2 \in {<<BT>>, <<>>},
          post \in {<<>>, <<"c">>}}

\* A candidate directive before a literal, or a directive, an opening line,
\* a candidate closing line and a closing line, or two literals in
\* sequence, each with a directive and a middle line, or three literals,
\* the first in another language than the second, the third under the same
\* or the other id of the second's language, or a directive, a candidate
\* closing line in the place of the opening line and two closing lines.
LineDocs(d) ==
  LET delims == IF d = "d1" THEN {PyDelim, PyOther} ELSE {JsDelim}
      directive == IF d = "d1" THEN PyDirective ELSE JsDirective
  IN  {<<c, o, o>> : c \in DirectiveCandidates, o \in delims}
        \cup {<<directive, o, c, o>> : o \in delims, c \in CloseCandidates(d)}
        \cup {<<directive, c, o, o>> : o \in delims, c \in CloseCandidates(d)}
        \cup {<<directive, o, m, n, o, directive, o, n, o>> :
                 o \in delims, m \in {Plain, <<"a", "b">>, <<>>},
                 n \in {<<"a", "b">>, <<"b", " ", "a">>}}
        \cup {<<DirectiveLine(commentPrefix(DocLanguage(d)), first), o, o,
                directive, o, o,
                DirectiveLine(commentPrefix(DocLanguage(d)), third), o, o>> :
                 o \in delims, first \in {LangCss, LangGlsl},
                 third \in {<<"J", "S">>, LangJavascript}}

InitLine ==
  /\ activeEditor \in ScannedDocs
  /\ \E text \in LineDocs(activeEditor) :
       docText = [d \in Docs |-> IF d = activeEditor THEN text ELSE <<<<>>>>]
  /\ InitCommon

SpecLine == InitLine /\ [][NextScan]_vars

\* ------------------------------------------------------------------ claims

\* The Regions a pass has produced so far, with the directive line, the
\* tokens and the lines examined for a directive before each.
RegionsOf(p) == {passes[p].regions[k] : k \in 1..Len(passes[p].regions)}

Finished(p) == passes[p].pc \in {"done", "threw", "returned"}

\* The one run of three quote characters of a line that holds exactly one.
OnlyRun(line) == CHOOSE q \in QuoteRuns(line) : TRUE

\* Line d is a directive, line d + 1 an opening line, then k - 1 lines with
\* no triple quote, then a closing line with the same quote characters;
\* a triple quote is what the pattern of the scanner takes for one, three
\* quote characters in a row, and the opening and the closing line hold one.
C1Shape(lines, d, k) ==
  /\ k >= 1
  /\ d + 1 + k <= Len(lines) - 1
  /\ CommentMatch(At(lines, d), <<"#">>).ok
  /\ Cardinality(QuoteRuns(At(lines, d + 1))) = 1
  /\ \A j \in (d + 2)..(d + k) : QuoteRuns(At(lines, j)) = {}
  /\ Cardinality(QuoteRuns(At(lines, d + 1 + k))) = 1
  /\ LET o == At(lines, d + 1)
         c == At(lines, d + 1 + k)
     IN  SubSeq(o, OnlyRun(o), OnlyRun(o) + 2) = SubSeq(c, OnlyRun(c), OnlyRun(c) + 2)

\* The Region C1 states for such a shape.
C1Region(lines, d, k) ==
  LET o == At(lines, d + 1)
      c == At(lines, d + 1 + k)
  IN  [startLine |-> d + 1,
       endLine |-> d + 1 + k,
       contentLines |->
         <<SubSeq(o, OnlyRun(o) + 3, Len(o))>>
           \o [j \in 1..(k - 1) |-> At(lines, d + 1 + j)]
           \o <<SubSeq(c, 1, OnlyRun(c) - 1)>>]

SameRegion(r, e) ==
  /\ r.ok
  /\ r.startLine = e.startLine
  /\ r.endLine = e.endLine
  /\ r.contentLines = e.contentLines

\* C1: in a triple-quoted document, a directive on line d followed at once
\* by an opening line, k - 1 lines without a triple quote and a closing line
\* of the same variant gives, from findStringLiteral, the Region of lines
\* d + 1 to d + 1 + k whose content is the text after the opening delimiter,
\* the interior lines and the text before the closing delimiter; and a
\* finished pass over a document that is exactly this shape holds that
\* Region and no other.
C1_DirectiveThenLiteral ==
  \A p \in 1..Len(passes) :
    passes[p].languageId = "python" =>
      LET lines == passes[p].lines
      IN  \A d \in 0..(Len(lines) - 1) : \A k \in 1..Len(lines) :
            C1Shape(lines, d, k) =>
              /\ SameRegion(findStringLiteral(lines, d + 1, "python"),
                            C1Region(lines, d, k))
              /\ (d = 0 /\ d + 1 + k = Len(lines) - 1 /\ Finished(p)) =>
                   /\ Len(passes[p].regions) = 1
                   /\ SameRegion(passes[p].regions[1].region, C1Region(lines, d, k))

\* C1's case: a finished pass over a document that is a directive, an
\* opening line, interior lines and a closing line.
C1_Witness ==
  \E p \in 1..Len(passes) :
    /\ passes[p].languageId = "python"
    /\ Finished(p)
    /\ \E k \in 2..Len(passes[p].lines) :
         /\ C1Shape(passes[p].lines, 0, k)
         /\ k + 1 = Len(passes[p].lines) - 1
    /\ Len(passes[p].regions) = 1

\* C2: every Region has startLine <= endLine and as many content lines as
\* the lines it spans.
C2_ContentLength ==
  \A p \in 1..Len(passes) : \A r \in RegionsOf(p) :
    /\ r.region.startLine <= r.region.endLine
    /\ Len(r.region.contentLines) = r.region.endLine - r.region.startLine + 1

\* The text after the delimiter of an opening line and before the delimiter
\* of a closing line, per dialect.
AfterDelimiter(line, languageId) ==
  IF languageId = "python" THEN TripleQuoteMatch(line).after
  ELSE TemplateMatch(line).after

BeforeDelimiter(line, languageId) ==
  IF languageId = "python" THEN TripleQuoteMatch(line).before
  ELSE TemplateMatch(line).before

\* The host text between the opening delimiter on line a and the closing
\* delimiter on line b > a, as lines.
Interior(lines, a, b, languageId) ==
  <<AfterDelimiter(At(lines, a), languageId)>>
    \o [j \in 1..(b - a - 1) |-> At(lines, a + j)]
    \o <<BeforeDelimiter(At(lines, b), languageId)>>

\* C3: the content lines of every Region are exactly the host text between
\* the opening delimiter on startLine and the closing delimiter on endLine.
C3_RoundTrip ==
  \A p \in 1..Len(passes) : \A r \in RegionsOf(p) :
    r.region.contentLines =
      Interior(passes[p].lines, r.region.startLine, r.region.endLine,
               passes[p].languageId)

\* The text of a document at a range of one line.
HostText(lines, range) == Slice(At(lines, range.line), range.startCol, range.endCol)

\* C4: the host text at the range of every token is the content slice the
\* token was made from (its value).
C4_TokenRangeText ==
  \A p \in 1..Len(passes) : \A r \in RegionsOf(p) :
    \A k \in 1..Len(r.tokens) :
      /\ r.tokens[k].range.line < Len(passes[p].lines)
      /\ HostText(passes[p].lines, r.tokens[k].range) = r.tokens[k].value

\* C5: the Regions of a pass lie in strictly increasing line order without
\* overlap, each after the directive that announced it, and no line up to
\* the end of a Region is examined for a directive after that Region.
C5_SkipRule ==
  \A p \in 1..Len(passes) :
    LET regs == passes[p].regions
    IN  /\ \A k \in 1..Len(regs) :
             /\ regs[k].dirLine < regs[k].region.startLine
             /\ regs[k].region.startLine <= regs[k].region.endLine
        /\ \A k \in 1..(Len(regs) - 1) :
             /\ regs[k].region.endLine < regs[k + 1].dirLine
             /\ regs[k].region.endLine < regs[k + 1].region.startLine
             /\ \A i \in regs[k + 1].examined : i > regs[k].region.endLine
        /\ Len(regs) > 0 =>
             \A i \in passes[p].examined : i > regs[Len(regs)].region.endLine

\* C5's case: a pass with two Regions, a directive line inside the first.
C5_Witness ==
  \E p \in 1..Len(passes) :
    /\ Len(passes[p].regions) = 2
    /\ \E i \in (passes[p].regions[1].dirLine + 1)..passes[p].regions[1].region.endLine :
         CommentMatch(At(passes[p].lines, i), commentPrefix(passes[p].languageId)).ok

\* The ranges a mapping gives each type label.
RangesOf(mapping, t) ==
  IF \E k \in 1..Len(mapping) : mapping[k].type = t
  THEN mapping[CHOOSE k \in 1..Len(mapping) : mapping[k].type = t].ranges
  ELSE <<>>

\* C6: after a pass has applied its result, the active editor shows, for
\* every type label, exactly the ranges of that pass's mapping (nothing of
\* an earlier pass is left, also when the mapping is empty).
C6_ShownIsLastMapping ==
  applyLog # <<>> =>
    LET last == applyLog[Len(applyLog)]
    IN  last.editor # NoEditor =>
          \A t \in TypeLabels : shown[last.editor][t] = RangesOf(last.mapping, t)

\* C7: a pass triggered earlier never applies its result after a pass
\* triggered later has applied its own, so that once every pass has
\* completed the result applied last is the most recently triggered one's.
C7_LatestPassWins ==
  /\ \A k \in 1..(Len(applyLog) - 1) : applyLog[k].pass < applyLog[k + 1].pass
  /\ (/\ passes # <<>>
      /\ \A p \in 1..Len(passes) : Finished(p)
      /\ passes[Len(passes)].pc = "done")
       => applyLog[Len(applyLog)].pass = Len(passes)

\* C8: the grammar of a language id is loaded and written to grammarCache
\* at most once.
C8_LoadedOnce ==
  \A language \in DOMAIN loadCount : loadCount[language] <= 1

\* C9: a Region whose grammar cannot be resolved contributes no token, and
\* no pass is aborted by an exception.
C9_UnavailableIsNull ==
  \A p \in 1..Len(passes) :
    /\ passes[p].pc # "threw"
    /\ \A r \in RegionsOf(p) : ~r.resolved => r.tokens = <<>>

RECURSIVE ScanRegions(_, _, _, _)
\* The Regions of a document by the directive, literal and skip rules alone,
\* whatever the grammars do: the directive line and Region of each.
ScanRegions(lines, languageId, i, prevEndLine) ==
  IF i >= Len(lines) THEN <<>>
  ELSE IF i <= prevEndLine THEN ScanRegions(lines, languageId, i + 1, prevEndLine)
  ELSE LET found == IF CommentMatch(At(lines, i), commentPrefix(languageId)).ok
                    THEN findStringLiteral(lines, i + 1, languageId)
                    ELSE NoMatch
       IN  IF found.ok
           THEN <<[dirLine |-> i, region |-> found]>>
                  \o ScanRegions(lines, languageId, i + 1, found.endLine)
           ELSE ScanRegions(lines, languageId, i + 1, prevEndLine)

RECURSIVE AllTokens(_)
AllTokens(regs) ==
  IF regs = <<>> THEN <<>> ELSE Head(regs).tokens \o AllTokens(Tail(regs))

\* C10: a finished pass has scanned every Region of its document, failing
\* grammars or not, the Regions whose grammar resolved have their tokens,
\* and the mapping the pass delivers holds the tokens of them all.
C10_OtherRegionsUnaffected ==
  \A p \in 1..Len(passes) :
    (Finished(p) /\ passes[p].pc # "returned") =>
      LET ps == passes[p]
          all == ScanRegions(ps.lines, ps.languageId, 0, Undef)
      IN  /\ Len(ps.regions) = Len(all)
          /\ \A k \in 1..Len(all) :
               /\ ps.regions[k].dirLine = all[k].dirLine
               /\ ps.regions[k].region = all[k].region
               /\ ps.regions[k].resolved =>
                    ps.regions[k].tokens =
                      tokenizeWithGrammar(all[k].region.contentLines,
                                          LoadedGrammar(RawGrammar(urls(ps.regions[k].language).url)),
                                          all[k].region.startLine,
                                          all[k].region.startLineOffset)
          /\ ps.pc = "done"
          /\ ps.decorationsByType = GroupByType(<<>>, AllTokens(ps.regions))

\* The lines a pass has examined for a directive.
ExaminedBy(p) == passes[p].examined \cup UNION {r.examined : r \in RegionsOf(p)}

\* Line i lies in a Region of the pass or between it and its directive.
Covered(p, i) ==
  \E r \in RegionsOf(p) : r.dirLine < i /\ i <= r.region.endLine

\* The line holds the delimiter: three quote characters that are q in the
\* triple-quoted dialect (any three for q = <<>>), a backtick otherwise.
ContainsDelim(line, languageId, q) ==
  IF languageId = "python"
  THEN \E r \in QuoteRuns(line) : q = <<>> \/ SubSeq(line, r, r + 2) = q
  ELSE Backticks(line) # {}

\* The delimiter of an opening line (the last one it holds).
DelimOf(line, languageId) ==
  IF languageId = "python" THEN TripleQuoteMatch(line).quote ELSE <<BT>>

\* The first line from from on that holds a delimiter, or Undef.
OpeningLine(lines, from, languageId) ==
  LET S == {j \in from..(Len(lines) - 1) : ContainsDelim(At(lines, j), languageId, <<>>)}
  IN  IF S = {} THEN Undef ELSE CHOOSE j \in S : \A k \in S : j <= k

\* The lines after the opening line o that hold the delimiter of o.
ClosingLines(lines, o, languageId) ==
  {j \in (o + 1)..(Len(lines) - 1) :
     ContainsDelim(At(lines, j), languageId, DelimOf(At(lines, o), languageId))}

IsDirectiveAt(lines, d, languageId) ==
  CommentMatch(At(lines, d), commentPrefix(languageId)).ok

\* The literal after the directive on line d is opened and never closed.
Unterminated(lines, d, languageId) ==
  /\ IsDirectiveAt(lines, d, languageId)
  /\ OpeningLine(lines, d + 1, languageId) # Undef
  /\ ClosingLines(lines, OpeningLine(lines, d + 1, languageId), languageId) = {}

\* The literal after the directive on line d is opened and closed.
Terminated(lines, d, languageId) ==
  /\ IsDirectiveAt(lines, d, languageId)
  /\ OpeningLine(lines, d + 1, languageId) # Undef
  /\ ClosingLines(lines, OpeningLine(lines, d + 1, languageId), languageId) # {}

\* C11: for a directive whose literal is opened and not closed before the
\* end of the document, findStringLiteral returns null, the pass holds no
\* Region and no token for it, the line after it is examined, and every
\* later directive outside a Region whose literal is closed has its Region.
C11_UnterminatedDropped ==
  \A p \in 1..Len(passes) :
    passes[p].pc = "done" =>
      LET lines == passes[p].lines
          lang == passes[p].languageId
      IN  \A d \in 0..(Len(lines) - 1) :
            (Unterminated(lines, d, lang) /\ ~Covered(p, d)) =>
              /\ ~findStringLiteral(lines, d + 1, lang).ok
              /\ d \in ExaminedBy(p)
              /\ ~\E r \in RegionsOf(p) : r.dirLine = d
              /\ d + 1 \in ExaminedBy(p)
              /\ \A d2 \in (d + 1)..(Len(lines) - 1) :
                   (Terminated(lines, d2, lang) /\ ~Covered(p, d2)) =>
                     \E r \in RegionsOf(p) : r.dirLine = d2

\* C11's case: a completed pass over a document with a directive whose
\* literal is never closed and a later directive that has its Region.
C11_Witness ==
  \E p \in 1..Len(passes) :
    /\ passes[p].pc = "done"
    /\ \E d \in 0..(Len(passes[p].lines) - 1) :
         /\ Unterminated(passes[p].lines, d, passes[p].languageId)
         /\ ~Covered(p, d)
         /\ \E r \in RegionsOf(p) : r.dirLine > d

\* C12: in the triple-quoted dialect, a line with the other quote variant
\* inside an open literal does not close it and is a content line of the
\* Region (Regions whose opening line follows the directive at once, so
\* that content line j - startLine is host line j).
C12_OtherVariantIsContent ==
  \A p \in 1..Len(passes) :
    passes[p].languageId = "python" =>
      \A r \in RegionsOf(p) :
        r.dirLine + 1 = r.region.startLine =>
          \A j \in (r.region.startLine + 1)..(r.region.endLine - 1) :
            LET m == TripleQuoteMatch(At(passes[p].lines, j))
                o == TripleQuoteMatch(At(passes[p].lines, r.region.startLine))
            IN  (m.ok /\ m.quote # o.quote) =>
                  /\ Len(r.region.contentLines)
                       = r.region.endLine - r.region.startLine + 1
                  /\ At(r.region.contentLines, j - r.region.startLine)
                       = At(passes[p].lines, j)

\* Every Region of the pass had its grammar, or names a language without one.
Loaded(p) ==
  \A r \in RegionsOf(p) : r.resolved \/ urls(r.language).kind = "undefined"

\* Pass q is pass p run again: the next call, begun after p and every
\* earlier call had ended, on the same document with the same text.
RunAgain(p, q) ==
  /\ q = p + 1
  /\ passes[p].pc = "done"
  /\ passes[q].pc = "done"
  /\ passes[p].after = 1..(p - 1)
  /\ passes[q].after = 1..p
  /\ passes[q].doc = passes[p].doc
  /\ passes[q].lines = passes[p].lines

\* C13: a pass run again on an unchanged document, after a pass that had
\* the grammars it asked for, ends with the same type-to-ranges mapping and
\* the same type-to-colour assignment.
C13_Idempotent ==
  \A p \in 1..Len(passes) : \A q \in 1..Len(passes) :
    (RunAgain(p, q) /\ Loaded(p)) =>
      /\ passes[q].decorationsByType = passes[p].decorationsByType
      /\ passes[q].colors = passes[p].colors

\* C13's case: a pass that loaded a grammar and found tokens, run again.
C13_Witness ==
  \E p \in 1..Len(passes) : \E q \in 1..Len(passes) :
    /\ RunAgain(p, q)
    /\ Loaded(p)
    /\ passes[p].decorationsByType # <<>>
    /\ loadCount # <<>>

\* C14: whatever was loaded before or after, every label of a loaded
\* grammar has the colour that grammar alone assigns to it.
C14_ColorDependsOnGrammarOnly ==
  \A language \in DOMAIN grammarCache :
    LET own == AssignColors(<<>>, RawGrammar(urls(language).url))
    IN  \A l \in DOMAIN own :
          l \in DOMAIN tokenTypeColors /\ tokenTypeColors[l] = own[l]

\* C15: once a grammar is loaded, the label of every token made with it,
\* its root scope name included, has an entry in tokenTypeColors.
C15_ColorMapTotal ==
  /\ \A p \in 1..Len(passes) : \A r \in RegionsOf(p) :
       \A k \in 1..Len(r.tokens) : r.tokens[k].type \in DOMAIN tokenTypeColors
  /\ \A language \in DOMAIN grammarCache :
       grammarCache[language].scopeName \in DOMAIN tokenTypeColors

\* C16: getColorForType gives the fallback colour for "default" and for
\* every label without an entry, in every state.
C16_FallbackColor ==
  /\ ColorOf(tokenTypeColors, "default") = "#dcdcdc"
  /\ \A l \in TypeLabels \cup {"unseen"} :
       l \notin DOMAIN tokenTypeColors => ColorOf(tokenTypeColors, l) = "#dcdcdc"

\* C16's case: a grammar that declares a scope named "default" is loaded,
\* "default" has an entry and some label has none.
C16_Witness ==
  /\ LangJs \in DOMAIN grammarCache
  /\ "default" \in extractTokenTypesFromGrammar(RawGrammar(urls(LangJs).url))
  /\ "default" \in DOMAIN tokenTypeColors
  /\ \E l \in TypeLabels : l \notin DOMAIN tokenTypeColors

\* C17: once dispose() has run, both subscriptions and every decoration
\* handle created, before or after, are disposed.
C17_AllDisposed ==
  disposed # {} =>
    /\ {"changeDocument", "changeActiveEditor"} \subseteq disposed
    /\ \A k \in 1..Len(disposables) : disposables[k] \in disposed
    /\ DOMAIN decorationTypes \subseteq disposed

\* The prefix of each dialect, as the directive syntax gives it.
DialectPrefix(languageId) == IF languageId = "python" THEN <<"#">> ELSE <<"/", "/">>
OtherPrefix(languageId) == IF languageId = "python" THEN <<"/", "/">> ELSE <<"#">>

AllSpaces(line, from, to) == \A k \in from..to : IsSpace(line[k])

\* The ids of the line read as a directive: a spaces, the prefix, b spaces,
\* "lang:", c spaces and a word that no word character follows.
DirectiveIds(line, prefix) ==
  LET n == Len(line)
      k == Len(prefix)
      afterPrefix == {a + k : a \in {a \in 0..n : /\ AllSpaces(line, 1, a)
                                                  /\ HasLit(line, a + 1, prefix)}}
      afterKey == UNION {{x + b + 5 : b \in {b \in 0..(n - x) :
                                               /\ AllSpaces(line, x + 1, x + b)
                                               /\ HasLit(line, x + b + 1,
                                                         <<"l", "a", "n", "g", ":">>)}}
                           : x \in afterPrefix}
      wordStart == UNION {{y + c + 1 : c \in {c \in 0..(n - y) : AllSpaces(line, y + 1, y + c)}}
                            : y \in afterKey}
  IN  UNION {{SubSeq(line, w, e) : e \in {e \in w..n :
                                            /\ \A j \in w..e : IsWord(line[j])
                                            /\ (e = n \/ ~IsWord(line[e + 1]))}}
               : w \in wordStart}

\* No line of the document is a directive of its dialect.
NoDirective(lines, languageId) ==
  \A i \in 0..(Len(lines) - 1) :
    DirectiveIds(At(lines, i), DialectPrefix(languageId)) = {}

\* C18: a pass over a text without a directive line of its dialect ends at
\* once, with no Region, no grammar asked for and an empty mapping.
C18_NoDirectiveNoRegion ==
  \A p \in 1..Len(passes) :
    NoDirective(passes[p].lines, passes[p].languageId) =>
      /\ passes[p].pc = "done"
      /\ passes[p].regions = <<>>
      /\ passes[p].pend = NoMatch
      /\ passes[p].decorationsByType = <<>>
      /\ \A k \in 1..Len(applyLog) : applyLog[k].pass = p => applyLog[k].mapping = <<>>

\* C18's case: a completed pass over a text with literals and with a line
\* that nearly is a directive (it holds "lang:") but no directive.
C18_Witness ==
  \E p \in 1..Len(passes) :
    /\ NoDirective(passes[p].lines, passes[p].languageId)
    /\ passes[p].pc = "done"
    /\ Len(passes[p].lines) >= 3
    /\ \E q \in 1..Len(At(passes[p].lines, 0)) :
         HasLit(At(passes[p].lines, 0), q, <<"l", "a", "n", "g", ":">>)

IsLowerCase(w) == \A k \in 1..Len(w) : w[k] \notin {"J", "S", "L"}

\* C19: the scanner takes a line for a directive exactly when the line has
\* the shape of a directive with the prefix of the document's dialect, never
\* for the other dialect's prefix, and the language it asks the grammar for
\* is the id of the line in lower case.
C19_DirectiveSyntax ==
  \A p \in 1..Len(passes) :
    LET lines == passes[p].lines
        lang == passes[p].languageId
    IN  /\ \A i \in 0..(Len(lines) - 1) :
             LET m == CommentMatch(At(lines, i), commentPrefix(lang))
                 ids == DirectiveIds(At(lines, i), DialectPrefix(lang))
             IN  /\ m.ok <=> ids # {}
                 /\ m.ok => m.lang \in ids
                 /\ DirectiveIds(At(lines, i), OtherPrefix(lang)) # {} => ~m.ok
        /\ \A r \in RegionsOf(p) \cup (IF passes[p].pend.ok THEN {passes[p].pend} ELSE {}) :
             LET ids == DirectiveIds(At(lines, r.dirLine), DialectPrefix(lang))
             IN  /\ IsLowerCase(r.language)
                 /\ \E id \in ids :
                      /\ Len(id) = Len(r.language)
                      /\ \A k \in 1..Len(id) : LowerChar(id[k]) = r.language[k]
        /\ (passes[p].pc = "done" /\ Len(lines) = 3) =>
             (Len(passes[p].regions) = 1
                <=> DirectiveIds(At(lines, 0), DialectPrefix(lang)) # {})

\* C19's case: a Region announced by a directive with leading space, spaces
\* around the keyword and an id in upper case.
C19_Witness ==
  \E p \in 1..Len(passes) : \E r \in RegionsOf(p) :
    LET line == At(passes[p].lines, r.dirLine)
    IN  /\ line[1] = " "
        /\ \E k \in 1..Len(line) : line[k] = "J"
        /\ r.language = LangJs
        /\ r.resolved

\* The 1-based positions at which the delimiter q starts in the line.
DelimPositions(line, languageId, q) ==
  IF languageId = "python"
  THEN {r \in QuoteRuns(line) : SubSeq(line, r, r + 2) = q}
  ELSE Backticks(line)

\* C20: a Region ends at the first line after its opening line that holds
\* the delimiter of the opening line, whatever else the line holds, and its
\* last content line is the text of that line before the delimiter (before
\* any one of them, where the line holds several).
C20_ClosesAtFirstDelimiter ==
  \A p \in 1..Len(passes) : \A r \in RegionsOf(p) :
    LET lines == passes[p].lines
        lang == passes[p].languageId
        o == r.region.startLine
        q == DelimOf(At(lines, o), lang)
        closing == ClosingLines(lines, o, lang)
    IN  /\ closing # {}
        /\ r.region.endLine \in closing
        /\ \A j \in closing : r.region.endLine <= j
        /\ r.region.contentLines # <<>>
        /\ \E pos \in DelimPositions(At(lines, r.region.endLine), lang, q) :
             r.region.contentLines[Len(r.region.contentLines)]
               = SubSeq(At(lines, r.region.endLine), 1, pos - 1)

\* C21: the startLineOffset of a Region is the length of the text before
\* the delimiter of its opening line, plus the three characters of the
\* delimiter in the triple-quoted dialect and plus nothing in the templated
\* dialect (opening lines that hold one delimiter).
C21_StartOffset ==
  \A p \in 1..Len(passes) : \A r \in RegionsOf(p) :
    LET line == At(passes[p].lines, r.region.startLine)
        lang == passes[p].languageId
        at == DelimPositions(line, lang, DelimOf(line, lang))
    IN  Cardinality(at) = 1 =>
          \A pos \in at :
            r.region.startLineOffset
              = Len(SubSeq(line, 1, pos - 1)) + (IF lang = "python" THEN 3 ELSE 0)

\* C21's case: a Region of each kind, opened after some host code.
C21_Witness ==
  \E p \in 1..Len(passes) : \E r \in RegionsOf(p) :
    /\ passes[p].languageId = "javascript"
    /\ r.region.startLineOffset = 2
    /\ TemplateMatch(At(passes[p].lines, r.region.startLine)).before = <<"y", "=">>

\* The grammar a Region's language resolves to.
GrammarOf(r) == LoadedGrammar(RawGrammar(urls(r.language).url))

\* The tokens of a sequence that lie on one host line, in order.
TokensOnLine(tokens, l) ==
  LET OnLine(t) == t.range.line = l
  IN  SelectSeq(tokens, OnLine)

\* C22: the spans of content line i lie on host line startLine + i, in
\* span order, their start and end columns moved by startLineOffset on the
\* first content line and by nothing on every other line.
C22_HostCoordinates ==
  \A p \in 1..Len(passes) : \A r \in RegionsOf(p) :
    r.resolved =>
      /\ \A k \in 1..Len(r.tokens) :
           r.tokens[k].range.line - r.region.startLine
             \in 0..(Len(r.region.contentLines) - 1)
      /\ \A i \in 0..(Len(r.region.contentLines) - 1) :
           LET spans == tokenizeLine(GrammarOf(r), At(r.region.contentLines, i),
                                     INITIAL).tokens
               onLine == TokensOnLine(r.tokens, r.region.startLine + i)
               shift == IF i = 0 THEN r.region.startLineOffset ELSE 0
           IN  /\ Len(onLine) = Len(spans)
               /\ \A k \in 1..Len(spans) :
                    /\ onLine[k].range.startCol = spans[k].startIndex + shift
                    /\ onLine[k].range.endCol = spans[k].endIndex + shift

\* C22's case: a Region with a positive offset whose first content line
\* has a token moved by it and whose later line has a token at column 0.
C22_Witness ==
  \E p \in 1..Len(passes) : \E r \in RegionsOf(p) :
    /\ r.resolved
    /\ r.region.startLineOffset > 0
    /\ \E k \in 1..Len(r.tokens) :
         /\ r.tokens[k].range.line = r.region.startLine
         /\ r.tokens[k].range.startCol = r.region.startLineOffset
         /\ r.tokens[k].range.endCol > r.tokens[k].range.startCol
    /\ \E k \in 1..Len(r.tokens) :
         /\ r.tokens[k].range.line > r.region.startLine
         /\ r.tokens[k].range.startCol = 0
         /\ r.tokens[k].range.endCol > 0

RECURSIVE RuleStateAt(_, _, _)
\* The rule state content line i is tokenized in when each line is handed
\* the state the line before it returned.
RuleStateAt(grammar, contentLines, i) ==
  IF i = 0 THEN INITIAL
  ELSE tokenizeLine(grammar, At(contentLines, i - 1),
                    RuleStateAt(grammar, contentLines, i - 1)).ruleStack

\* The type label of a span: its innermost scope.
TypeOf(token) ==
  IF token.scopes # <<>> /\ token.scopes[Len(token.scopes)] # ""
  THEN token.scopes[Len(token.scopes)] ELSE "default"

\* C23: the tokens of content line i of a Region are those the grammar
\* yields in the rule state returned for line i - 1, the initial state for
\* line 0, whatever Regions the pass has tokenized before.
C23_RuleStateCarried ==
  \A p \in 1..Len(passes) : \A r \in RegionsOf(p) :
    r.resolved =>
      \A i \in 0..(Len(r.region.contentLines) - 1) :
        LET spans == tokenizeLine(GrammarOf(r), At(r.region.contentLines, i),
                                  RuleStateAt(GrammarOf(r), r.region.contentLines, i)).tokens
            onLine == TokensOnLine(r.tokens, r.region.startLine + i)
        IN  /\ Len(onLine) = Len(spans)
            /\ \A k \in 1..Len(spans) : onLine[k].type = TypeOf(spans[k])

\* C23's case: two Regions in one pass, the first with a word that is no
\* keyword because the line before it left a continuation state, and ending
\* in a continuation state, the second beginning with a keyword.
C23_Witness ==
  \E p \in 1..Len(passes) :
    /\ Len(passes[p].regions) = 2
    /\ LET r1 == passes[p].regions[1]
           r2 == passes[p].regions[2]
           last == r1.region.contentLines[Len(r1.region.contentLines)]
       IN  /\ r1.resolved /\ r2.resolved
           /\ last # <<>> /\ last[Len(last)] = "="
           /\ At(r1.region.contentLines, 1) = Plain
           /\ \E k \in 1..Len(r1.tokens) :
                /\ r1.tokens[k].range.line = r1.region.startLine + 2
                /\ r1.tokens[k].value = <<"a", "b">>
                /\ r1.tokens[k].type = GrammarOf(r1).scopeName
           /\ r2.tokens[1].range.line = r2.region.startLine
           /\ r2.tokens[1].type = GrammarOf(r2).word

\* The ranges of the tokens of one type, in the order of the tokens.
RangesOfType(tokens, type) ==
  LET OfType(t) == t.type = type
      sel == SelectSeq(tokens, OfType)
  IN  [k \in 1..Len(sel) |-> sel[k].range]

\* C24: a pass has at most one Region in flight; while it waits for a
\* grammar, every Region before the waiting one has been resolved and
\* folded and no later Region has been touched, and at every moment the
\* mapping holds, per type label, the ranges of the tokens of the Regions
\* folded so far, in Region order and within a Region in token order.
C24_RegionsInSequence ==
  \A p \in 1..Len(passes) :
    LET ps == passes[p]
        all == ScanRegions(ps.lines, ps.languageId, 0, Undef)
        folded == AllTokens(ps.regions)
    IN  /\ Len(ps.regions) <= Len(all)
        /\ \A k \in 1..Len(ps.regions) :
             /\ ps.regions[k].dirLine = all[k].dirLine
             /\ ps.regions[k].region = all[k].region
        /\ ps.pc = "fetch" =>
             /\ Len(ps.regions) < Len(all)
             /\ ps.pend.dirLine = all[Len(ps.regions) + 1].dirLine
             /\ ps.pend.region = all[Len(ps.regions) + 1].region
        /\ \A k \in 1..Len(ps.decorationsByType) :
             /\ ps.decorationsByType[k].ranges
                  = RangesOfType(folded, ps.decorationsByType[k].type)
             /\ \A j \in 1..Len(ps.decorationsByType) :
                  ps.decorationsByType[j].type = ps.decorationsByType[k].type => j = k
        /\ \A k \in 1..Len(folded) :
             \E j \in 1..Len(ps.decorationsByType) :
               ps.decorationsByType[j].type = folded[k].type

\* C24's case: a pass waiting for the grammar of its second Region with
\* the tokens of the first folded in.
C24_Witness ==
  \E p \in 1..Len(passes) :
    /\ passes[p].pc = "fetch"
    /\ Len(passes[p].regions) = 1
    /\ passes[p].regions[1].resolved
    /\ passes[p].decorationsByType # <<>>
    /\ passes[p].pend.dirLine > passes[p].regions[1].region.endLine
    /\ Len(ScanRegions(passes[p].lines, passes[p].languageId, 0, Undef)) = 3

\* The position of a label in the sort order of strings.
LabelPosition(l) == CHOOSE k \in 1..Len(LabelOrder) : LabelOrder[k] = l

\* The number of labels of a set that sort before a label: its sorted index.
SortedIndex(l, labels) ==
  Cardinality({m \in labels : LabelPosition(m) < LabelPosition(l)})

\* The languages a step loads a grammar for.
LoadedInStep ==
  {language \in DOMAIN loadCount' :
     language \notin DOMAIN loadCount
       \/ loadCount'[language] # loadCount[language]}

\* C25: every load leaves each label of its grammar, the reserved label
\* "default" aside, with the palette colour at the label's index in the
\* sorted labels of that grammar modulo the 20 colours, whatever was loaded
\* before; so two loads of one grammar give a label the same index.
C25_PaletteBySortedIndex ==
  [][\A language \in LoadedInStep :
       LET labels == extractTokenTypesFromGrammar(RawGrammar(urls(language).url))
       IN  \A l \in labels \ {"default"} :
             /\ l \in DOMAIN tokenTypeColors'
             /\ tokenTypeColors'[l]
                  = colorPalette[(SortedIndex(l, labels) % 20) + 1]]_vars

\* C25's case: a grammar of more than 20 labels is loaded, its label at
\* index 20 has the first colour of the palette, and one grammar has been
\* loaded twice, under two ids.
C25_Witness ==
  /\ LangGlsl \in DOMAIN loadCount
  /\ Cardinality(extractTokenTypesFromGrammar(RawGrammar(urls(LangGlsl).url))) > 20
  /\ SortedIndex("meta.s.glsl",
                 extractTokenTypesFromGrammar(RawGrammar(urls(LangGlsl).url))) = 20
  /\ tokenTypeColors["meta.s.glsl"] = colorPalette[1]
  /\ tokenTypeColors["GLSL"] = colorPalette[1]
  /\ {LangJs, LangJavascript} \subseteq DOMAIN loadCount
  /\ urls(LangJs) = urls(LangJavascript)

\* The scope names written in the grammar each url serves.
NamesIn(url) ==
  CASE url = "TypeScriptReact.tmLanguage" ->
         {"TypeScriptReact", "default", "string", "keyword.control.tsx",
          "punctuation.tsx"}
    [] url = "css.tmLanguage.json" -> {"CSS", "entity.name.tag.css", "string"}
    [] url = "glsl.tmLanguage" ->
         {"GLSL", "keyword.glsl"} \cup {MetaLabels[k] : k \in 1..Len(MetaLabels)}
    [] OTHER -> {"Other", "keyword.other"}

\* C26: the traversal of a loaded grammar comes to an end with the scope
\* names written in its rules, each once, also for a grammar whose
\* repository entries refer to each other in a ring.
C26_TraversalTerminates ==
  \A language \in DOMAIN grammarCache :
    LET url == urls(language).url
    IN  /\ extractTokenTypesFromGrammar(RawGrammar(url)) = NamesIn(url)
        /\ NamesIn(url) \subseteq DOMAIN tokenTypeColors

\* C26's case: the grammar whose repository entries include each other in
\* a ring has been loaded and traversed.
C26_Witness ==
  /\ LangGlsl \in DOMAIN grammarCache
  /\ LET raw == RawGrammar(urls(LangGlsl).url)
     IN  /\ raw.patterns[1].include = 1
         /\ \A k \in 1..Len(raw.repository) :
              raw.repository[k].patterns[1].include \in 1..Len(raw.repository)
         /\ raw.repository[Len(raw.repository)].patterns[1].include = 1
  /\ "meta.s.glsl" \in DOMAIN tokenTypeColors

\* C27: the ranges a pass computed from the text of a document are applied
\* only to an editor that shows that document.
C27_AppliedToOwnDocument ==
  \A k \in 1..Len(applyLog) :
    (applyLog[k].editor # NoEditor /\ applyLog[k].mapping # <<>>) =>
      applyLog[k].editor = passes[applyLog[k].pass].doc

\* The language ids of the host dialects.
HostDialects ==
  {"python", "javascript", "typescript", "javascriptreact", "typescriptreact"}

\* The passes a step starts over a document of no host dialect.
ForeignPassesStarted ==
  {p \in 1..Len(passes') :
     p > Len(passes) /\ DocLanguage(passes'[p].doc) \notin HostDialects}

\* C28: a pass over a document of another language than the five host
\* dialects yields no Region and requests no grammar, and the step that
\* runs it leaves grammarCache, the colour map, the decoration handles and
\* what every editor shows as they were and makes no renderer call.
C28_ForeignLanguageUntouched ==
  [][\A p \in ForeignPassesStarted :
       /\ passes'[p].regions = <<>>
       /\ passes'[p].pc \notin {"fetch", "scan", "apply"}
       /\ ~passes'[p].pend.ok
       /\ passes'[p].decorationsByType = <<>>
       /\ grammarCache' = grammarCache
       /\ tokenTypeColors' = tokenTypeColors
       /\ loadCount' = loadCount
       /\ decorationTypes' = decorationTypes
       /\ \A k \in 1..Len(disposables') :
            disposables'[k] \in TypeLabels =>
              \E j \in 1..Len(disposables) : disposables[j] = disposables'[k]
       /\ shown' = shown
       /\ \A k \in 1..Len(applyLog') :
            applyLog'[k].pass = p => applyLog'[k].mapping = <<>>]_vars

\* C28's case: a pass has run over a document of another language whose
\* text holds directive-looking comments in front of literals, with a
\* grammar cached, handles created and decorations shown at that time.
C28_Witness ==
  \E p \in 1..Len(passes) :
    /\ DocLanguage(passes[p].doc) \notin HostDialects
    /\ \E i \in 0..(Len(passes[p].lines) - 1) :
         /\ CommentMatch(At(passes[p].lines, i), <<"/", "/">>).ok
         /\ TemplateMatch(At(passes[p].lines, i + 1)).ok
    /\ \E i \in 0..(Len(passes[p].lines) - 1) :
         CommentMatch(At(passes[p].lines, i), <<"#">>).ok
    /\ Finished(p)
    /\ grammarCache # <<>>
    /\ decorationTypes # <<>>
    /\ \E e \in Docs : shown[e] # NoRanges

\* The passes for which the first call of fetchGrammar completed in a step
\* returned null: the first Region the step adds to the pass is unresolved.
NullReturned ==
  {p \in 1..Len(passes') :
     LET before == IF p <= Len(passes) THEN Len(passes[p].regions) ELSE 0
     IN  /\ Len(passes'[p].regions) > before
         /\ ~passes'[p].regions[before + 1].resolved}

\* C29: a call of fetchGrammar that returns null leaves grammarCache and
\* the colour map as they were, and in every state each label collected
\* from a cached grammar, and the fallback label, has an entry in the
\* colour map.
C29_NullLeavesCacheAndColors ==
  /\ [](\A language \in DOMAIN grammarCache :
          /\ "default" \in DOMAIN tokenTypeColors
          /\ \A l \in NamesIn(urls(language).url) : l \in DOMAIN tokenTypeColors)
  /\ [][NullReturned # {} =>
          /\ grammarCache' = grammarCache
          /\ tokenTypeColors' = tokenTypeColors]_vars

\* C29's case: with one grammar cached and coloured, the fetch of another
\* has failed and its Region stayed without tokens.
C29_Witness ==
  \E p \in 1..Len(passes) : \E r \in RegionsOf(p) :
    /\ ~r.resolved
    /\ urls(r.language).kind = "url"
    /\ r.language \notin DOMAIN grammarCache
    /\ grammarCache # <<>>
    /\ \A language \in DOMAIN grammarCache :
         NamesIn(urls(language).url) \subseteq DOMAIN tokenTypeColors

\* C30: each type label has at most one decoration handle, every handle is
\* in disposables, and the colour of a label's handle is the colour the
\* colour map gives the label now, or the fallback.
C30_HandlesMatchColorMap ==
  \A t \in DOMAIN decorationTypes :
    /\ Cardinality({k \in 1..Len(disposables) : disposables[k] = t}) = 1
    /\ decorationTypes[t] = ColorOf(tokenTypeColors, t)

\* The first two parts of C30 alone hold in every state.
C30_OneRegisteredHandle ==
  \A t \in DOMAIN decorationTypes :
    Cardinality({k \in 1..Len(disposables) : disposables[k] = t}) = 1

\* C31: a Region ends on a later line than it starts on, and it starts on
\* the first line after its directive that holds a delimiter, whatever
\* else that line holds.
C31_EndsAfterStart ==
  \A p \in 1..Len(passes) : \A r \in RegionsOf(p) :
    /\ r.region.endLine > r.region.startLine
    /\ r.region.startLine
         = OpeningLine(passes[p].lines, r.dirLine + 1, passes[p].languageId)
    /\ Len(r.region.contentLines) >= 2

\* C31's case: a Region whose opening line holds the delimiter twice.
C31_Witness ==
  \E p \in 1..Len(passes) : \E r \in RegionsOf(p) :
    LET line == At(passes[p].lines, r.region.startLine)
        lang == passes[p].languageId
    IN  /\ Cardinality(DelimPositions(line, lang, DelimOf(line, lang))) >= 2
        /\ r.region.endLine = r.region.startLine + 1

\* The state of the highlighter, as opposed to that of the editor.
highlighterVars ==
  <<shown, grammarCache, tokenTypeColors, decorationTypes, disposables,
    passes, loadCount, applyLog>>

\* C32: a step starts at most one pass, and only as activation with an
\* active editor, as a change of the text of the active editor's document,
\* or as a change of the active editor to an editor, the pass being over
\* that editor's document and text; a change of the text of a document
\* that is not the active editor's, and a change to no editor, start no
\* pass and leave the highlighter as it was.
C32_PassTriggers ==
  [][/\ Len(passes') \in {Len(passes), Len(passes) + 1}
     /\ Len(passes') > Len(passes) =>
          LET new == passes'[Len(passes')]
          IN  \/ /\ ~activated /\ activated'
                 /\ activeEditor # NoEditor
                 /\ new.doc = activeEditor
                 /\ new.lines = docText[activeEditor]
              \/ /\ activated /\ activeEditor' = activeEditor
                 /\ activeEditor # NoEditor
                 /\ docText'[activeEditor] # docText[activeEditor]
                 /\ new.doc = activeEditor
                 /\ new.lines = docText'[activeEditor]
              \/ /\ activated /\ activeEditor' # activeEditor
                 /\ activeEditor' # NoEditor
                 /\ new.doc = activeEditor'
                 /\ new.lines = docText[activeEditor']
     /\ (/\ docText' # docText
         /\ \/ activeEditor = NoEditor
            \/ docText'[activeEditor] = docText[activeEditor])
          => UNCHANGED highlighterVars
     /\ (activeEditor' # activeEditor /\ activeEditor' = NoEditor)
          => UNCHANGED highlighterVars]_vars

\* C32's case: with no editor active after a pass over the first document,
\* the text of that document has been changed and no pass has run over the
\* new text.
C32_Witness ==
  /\ activated
  /\ activeEditor = NoEditor
  /\ docText["d1"] = <<Plain>>
  /\ \E p \in 1..Len(passes) : passes[p].doc = "d1"
  /\ \A p \in 1..Len(passes) : passes[p].doc = "d1" => passes[p].lines # <<Plain>>
  /\ Len(passes) < MaxPasses

\* The language ids a document can have in the comparison of the scanners.
LanguageIds == SUPPORTED_PARENT_LANGUAGES \cup {"markdown"}

\* The draft scanner and the final scanner agree on an input: both return
\* null, or both a Region with the same lines and content.
ScannersAgree(lines, fromLine, languageId) ==
  LET final == findStringLiteral(lines, fromLine, languageId)
      draft == findStringLiteralDraft(lines, fromLine, languageId)
  IN  /\ final.ok = draft.ok
      /\ final.ok =>
           /\ final.startLine = draft.startLine
           /\ final.endLine = draft.endLine
           /\ final.contentLines = draft.contentLines

\* C33: on the text of every document, from every start index and under
\* every language id, the draft scanner and the final scanner return null
\* together and otherwise the same startLine, endLine and contentLines.
C33_DraftScannerEquivalent ==
  \A d \in Docs : \A fromLine \in 0..Len(docText[d]) :
    \A languageId \in LanguageIds :
      ScannersAgree(docText[d], fromLine, languageId)

\* C33's case: a triple-quoted text on which both scanners return a Region
\* that runs over a line with the other quote variant from one start index
\* and both return null from a later one, after a pass has scanned it.
C33_Witness ==
  \E p \in 1..Len(passes) :
    LET lines == passes[p].lines
    IN  /\ lines = docText[passes[p].doc]
        /\ passes[p].languageId = "python"
        /\ passes[p].regions # <<>>
        /\ \E fromLine \in 0..Len(lines) :
             LET draft == findStringLiteralDraft(lines, fromLine, "python")
             IN  /\ draft.ok
                 /\ draft.endLine >= draft.startLine + 2
                 /\ \E j \in (draft.startLine + 1)..(draft.endLine - 1) :
                      TripleQuoteMatch(At(lines, j)).ok
                 /\ passes[p].regions[1].region.startLine = draft.startLine
                 /\ passes[p].regions[1].region.endLine = draft.endLine
        /\ \E fromLine \in 0..Len(lines) :
             /\ ~findStringLiteralDraft(lines, fromLine, "python").ok
             /\ ~findStringLiteral(lines, fromLine, "python").ok

====
